---------------------------- MODULE Spec2Model ----------------------------
(***************************************************************************)
(* Model of dgmd-notice-rss (src/main.rs): one run of `main` fetches the   *)
(* board page, extracts the notices, compares the first non-pinned index   *)
(* with the previous watermark given as args[1], renders one document in   *)
(* the mode given as args[2] and overwrites the last_index file.           *)
(*                                                                         *)
(* A Rust String is modelled as a sequence of chunks.  Text that comes     *)
(* from the page or from the command line is given one character per       *)
(* chunk; the literal pieces of the format! templates are one chunk each.  *)
(* Concatenation is \o.  Three literals of the source are not ASCII and    *)
(* are transliterated: the commit-message header suffix (HeaderSuffix),    *)
(* the Markdown pin marker (PinMarker) and the Markdown header (MdHeader). *)
(***************************************************************************)
EXTENDS Integers, Sequences, FiniteSets

\* ------------------------------------------------------------------ bounds

\* Most rows a fetched page holds in the model (the request asks for 30).
MaxRows == 2

\* ---------------------------------------------------------------- integers

\* i32::MAX; i32::MIN is I32Min.
I32Max == 2147483647

I32Min == -I32Max - 1

Digits == <<"0", "1", "2", "3", "4", "5", "6", "7", "8", "9">>

IsDigit(c) == c \in {"0", "1", "2", "3", "4", "5", "6", "7", "8", "9"}

\* The value of a digit: Digits[DigitVal(c) + 1] = c.
DigitVal(c) ==
    CASE c = "0" -> 0 [] c = "1" -> 1 [] c = "2" -> 2 [] c = "3" -> 3
      [] c = "4" -> 4 [] c = "5" -> 5 [] c = "6" -> 6 [] c = "7" -> 7
      [] c = "8" -> 8 [] c = "9" -> 9

Err == [ok |-> FALSE, val |-> 0]

Ok(n) == [ok |-> TRUE, val |-> n]

\* Accumulate the digits of s[i..] onto acc, towards +infinity (sign = 1) or
\* -infinity (sign = -1), failing on a non-digit and on leaving the i32 range
\* (checked_mul / checked_add, checked_sub of core::num::from_str_radix).
RECURSIVE ParseDigits(_, _, _, _)
ParseDigits(s, i, acc, sign) ==
    IF i > Len(s) THEN Ok(acc)
    ELSE IF ~IsDigit(s[i]) THEN Err
    ELSE LET d == DigitVal(s[i]) IN
         IF sign = 1
         THEN IF acc > (I32Max - d) \div 10 THEN Err
              ELSE ParseDigits(s, i + 1, acc * 10 + d, sign)
         ELSE IF acc < (I32Min + d + 9) \div 10 THEN Err
              ELSE ParseDigits(s, i + 1, acc * 10 - d, sign)

\* str::parse::<i32>: an optional sign, then at least one digit, in range.
ParseI32(s) ==
    IF Len(s) = 0 THEN Err
    ELSE IF s[1] \in {"+", "-"}
         THEN IF Len(s) = 1 THEN Err
              ELSE ParseDigits(s, 2, 0, IF s[1] = "-" THEN -1 ELSE 1)
         ELSE ParseDigits(s, 1, 0, 1)

\* The decimal digits of -n for n <= 0 (n may be i32::MIN, whose negation
\* is out of range).
RECURSIVE NegDigits(_)
NegDigits(n) ==
    IF n > -10 THEN <<Digits[1 - n]>>
    ELSE LET q == IF n % 10 = 0 THEN n \div 10 ELSE n \div 10 + 1 IN
         NegDigits(q) \o <<Digits[q * 10 - n + 1]>>

\* i32::to_string.
ToString(n) == IF n < 0 THEN <<"-">> \o NegDigits(n) ELSE NegDigits(-n)

\* latest_index - last_index on i32.  The subtraction overflows when the
\* mathematical difference leaves the i32 range.
SubOverflows(a, b) ==
    \/ b < 0 /\ a > I32Max + b
    \/ b > 0 /\ a < I32Min + b

\* The two's-complement result of an overflowing a - b.
WrappingSub(a, b) ==
    IF b < 0 /\ a > I32Max + b THEN (a + I32Min) + (I32Min - b)
    ELSE IF b > 0 /\ a < I32Min + b THEN (a - I32Min) + ((-b) - I32Min)
    ELSE a - b

\* ----------------------------------------------------------------- strings

RECURSIVE Concat(_)
Concat(ss) == IF ss = <<>> THEN <<>> ELSE Head(ss) \o Concat(Tail(ss))

\* [String]::join(sep).
RECURSIVE Join(_, _)
Join(ss, sep) ==
    IF ss = <<>> THEN <<>>
    ELSE IF Len(ss) = 1 THEN ss[1]
    ELSE ss[1] \o sep \o Join(Tail(ss), sep)

IsSpace(c) == c \in {" ", "\n", "\t"}

RECURSIVE TrimStart(_)
TrimStart(s) ==
    IF s # <<>> /\ IsSpace(Head(s)) THEN TrimStart(Tail(s)) ELSE s

RECURSIVE TrimEnd(_)
TrimEnd(s) ==
    IF s # <<>> /\ IsSpace(s[Len(s)]) THEN TrimEnd(SubSeq(s, 1, Len(s) - 1))
    ELSE s

\* str::trim.
Trim(s) == TrimEnd(TrimStart(s))

IsNewlineOrTab(c) == c \in {"\n", "\t"}

\* str::replace(['\n', '\t'], "").
StripNewlinesTabs(s) == SelectSeq(s, LAMBDA c : ~IsNewlineOrTab(c))

\* htmlescape::encode_minimal: the five characters " & ' < > become entities.
EscapeChar(c) ==
    CASE c = "\"" -> "&quot;"
      [] c = "&" -> "&amp;"
      [] c = "'" -> "&#x27;"
      [] c = "<" -> "&lt;"
      [] c = ">" -> "&gt;"
      [] OTHER -> c

encode_minimal(s) == [i \in 1..Len(s) |-> EscapeChar(s[i])]

\* --------------------------------------------------------------- extractor

BASE_URL == <<"http://media.ajou.ac.kr/media/board/notice.do">>

NonEmpty(s) == s # <<>>

\* parse_text over the text nodes `texts` of the elements a selector matched
\* in one row: trim each, drop newlines and tabs, drop the empty ones, join
\* with one space.
parse_text(texts) ==
    Join(SelectSeq([i \in 1..Len(texts) |-> StripNewlinesTabs(Trim(texts[i]))],
                   NonEmpty),
         <<" ">>)

\* parse_attr over the href attributes of the elements a selector matched in
\* one row, each an Option given as a sequence of no or one value: the first
\* one present, else the empty string.
parse_attr(hrefs) ==
    LET present == Concat(hrefs) IN
    IF present = <<>> THEN <<>> ELSE present[1]

\* .parse::<i32>().unwrap_or(-1)
IndexOrPinned(text) ==
    LET r == ParseI32(text) IN IF r.ok THEN r.val ELSE -1

\* One row of table.board-table > tbody, as the selectors of parse_html see
\* it: num, cat, author, exp are the text nodes under the matched cells;
\* anchors are the title anchors, each with its text nodes and its href.
AnchorTexts(row) == Concat([i \in 1..Len(row.anchors) |-> row.anchors[i].text])

AnchorHrefs(row) == [i \in 1..Len(row.anchors) |-> row.anchors[i].href]

NoticeOf(row) ==
    [index      |-> IndexOrPinned(parse_text(row.num)),
     category   |-> encode_minimal(parse_text(row.cat)),
     title      |-> encode_minimal(parse_text(AnchorTexts(row))),
     author     |-> encode_minimal(parse_text(row.author)),
     link       |-> encode_minimal(BASE_URL \o parse_attr(AnchorHrefs(row))),
     expired_at |-> encode_minimal(parse_text(row.exp))]

\* parse_html: one Notice per matched row, in document order.
parse_html(rows) == [i \in 1..Len(rows) |-> NoticeOf(rows[i])]

\* --------------------------------------------------------------- renderers

\* The opening of one item in each rendering.
XmlItemOpen == "<item>\n <title>"

MdItemOpen == "* **["

CmItemOpen == "* "

\* Transliterations of the non-ASCII literals of lines 122, 128 and 146.
MdHeader == "# Midieohakgwa choegeun gongjisahang"

PinMarker == "(pin) "

HeaderSuffix == "gae-ui sae gongjisahang"

Description(notice) ==
    <<"[">> \o notice.category \o <<"] - ">> \o notice.author
        \o <<" (~">> \o notice.expired_at \o <<")">>

XmlItem(notice) ==
    <<XmlItemOpen>> \o notice.title \o <<"</title>\n <link>">> \o notice.link
        \o <<"</link>\n <description>">> \o Description(notice)
        \o <<"</description>\n </item>">>

XmlItems(notices) == [i \in 1..Len(notices) |-> XmlItem(notices[i])]

\* The channel header up to the build date (lines 86-92).
XmlHeaderOpen == "<rss version=\"2.0\">\n <channel>\n <title>Ajou University Department of Digital Media Notices</title>\n <link>https://media.ajou.ac.kr/media/board/board01.jsp</link>\n <description>Recently published notices</description>\n <language>ko-kr</language>\n <lastBuildDate>"

\* compose_xml; `now` is Utc::now().to_rfc2822().
compose_xml(notices, now) ==
    LET header == <<XmlHeaderOpen>> \o now \o <<"</lastBuildDate>">>
        footer == <<"</channel>\n </rss>">>
    IN  header \o <<"\n">> \o Join(XmlItems(notices), <<"\n">>) \o <<"\n">> \o footer

MdTitle(notice) ==
    IF notice.index = -1 THEN <<PinMarker>> \o notice.title ELSE notice.title

MdItem(notice) ==
    <<MdItemOpen>> \o MdTitle(notice) \o <<"](">> \o notice.link
        \o <<")**\\n  ">> \o Description(notice)

\* A slip of MdItems: the pinned notices are left out.
MdItemsWithoutPinned(notices) ==
    LET kept == SelectSeq(notices, LAMBDA n : n.index # -1) IN
    [i \in 1..Len(kept) |-> MdItem(kept[i])]

MdItems(notices) == [i \in 1..Len(notices) |-> MdItem(notices[i])]

\* compose_md; the raw strings keep backslash-n as two characters.
compose_md(notices) ==
    <<MdHeader>> \o <<"\\n\\n">> \o Join(MdItems(notices), <<"\\n\\n">>)

CmItem(notice) == <<CmItemOpen>> \o notice.title

CmItems(notices) == [i \in 1..Len(notices) |-> CmItem(notices[i])]

CmHeaderOpen == "dist: "

compose_commit_message(notices, new_count) ==
    LET header == <<CmHeaderOpen>> \o ToString(new_count) \o <<HeaderSuffix>>
    IN  header \o <<"\n\n">> \o Join(CmItems(notices), <<"\n">>)

\* ------------------------------------------------------------------ inputs

SeqsUpTo(S, n) == UNION {[1..k -> S] : k \in 0..n}

RowPinned ==
    [num     |-> << <<"\n", "\t">>, <<" ", "g", "j", "\n">> >>,
     cat     |-> << <<"c", "1">> >>,
     anchors |-> << [text |-> << <<"\n", "A", "&", "B", " ">> >>,
                     href |-> << <<"?", "n", "=", "9">> >>] >>,
     author  |-> << <<"a", "'", "s">> >>,
     exp     |-> << <<"2", "3", ".", "1", "2">> >>]

Row3 ==
    [num     |-> << <<"\n", " ", "3", "\t">> >>,
     cat     |-> << <<"c", "2">> >>,
     anchors |-> << [text |-> << <<"C", "<">>, <<"\t">>, <<"c">> >>,
                     href |-> << <<"?", "n", "=", "3">> >>] >>,
     author  |-> << <<"b">> >>,
     exp     |-> << >>]

Row2 ==
    [num     |-> << <<"2">> >>,
     cat     |-> << >>,
     anchors |-> << [text |-> << <<"D">> >>, href |-> << >>],
                    [text |-> << <<"d">> >>,
                     href |-> << <<"?", "n", "=", "2">> >>] >>,
     author  |-> << <<"b">> >>,
     exp     |-> << <<"2", "4">> >>]

RowMax ==
    [num     |-> << <<"2", "1", "4", "7", "4", "8", "3", "6", "4", "7">> >>,
     cat     |-> << <<"c", "1">> >>,
     anchors |-> << >>,
     author  |-> << >>,
     exp     |-> << >>]

RowOverflow ==
    [num     |-> << <<"2", "1", "4", "7", "4", "8", "3", "6", "4", "8">> >>,
     cat     |-> << <<"c", "1">> >>,
     anchors |-> << [text |-> << <<"E">> >>, href |-> << >>] >>,
     author  |-> << <<"\"", "q", "\"">> >>,
     exp     |-> << >>]

RowSplit ==
    [num     |-> << <<"1">>, <<"2">> >>,
     cat     |-> << <<"c", "2">> >>,
     anchors |-> << [text |-> << <<"F", ">">> >>,
                     href |-> << <<"?", "a", "&", "b">> >>] >>,
     author  |-> << <<"b">> >>,
     exp     |-> << >>]

\* The rows a fetched page is made of.
Rows == {RowPinned, Row3, Row2, RowMax, RowOverflow, RowSplit}

\* The rows table.board-table > tbody > tr matches in a fetched page.
Pages == SeqsUpTo(Rows, MaxRows)

Exe == <<"dgmd-notice-rss">>

\* Values of args[1]: decimal integers, and one that does not parse.
PrevArgs ==
    {<<"2">>, <<"3">>, <<"-", "2">>,
     <<"2", "1", "4", "7", "4", "8", "3", "6", "4", "7">>, <<"x">>}

ModeXml == <<"x", "m", "l">>

ModeMd == <<"m", "d">>

ModeCm == <<"c", "m">>

\* Values of args[2]: the three modes and one that is none of them.
ModeArgs == {ModeXml, ModeMd, ModeCm, <<"r", "s", "s">>}

\* Command lines: no argument, the previous index alone, or both.
Argvs ==
    {<<Exe>>} \cup {<<Exe, p>> : p \in PrevArgs}
        \cup {<<Exe, p, m>> : p \in PrevArgs, m \in ModeArgs}

\* Values of Utc::now().to_rfc2822().
Timestamps ==
    {<<"Sun, 01 Nov 2026 00:00:00 +0000">>, <<"Sun, 01 Nov 2026 01:00:00 +0000">>}

\* The last_index file: absent, or present with its content.
NoFile == [exists |-> FALSE, content |-> <<>>]

FileWith(text) == [exists |-> TRUE, content |-> text]

InitFiles == {NoFile, FileWith(<<"2">>), FileWith(<<"0">>)}

\* ------------------------------------------------------------------- state

VARIABLES
    pc,            \* position of the run in main, "idle" between runs
    argv,          \* env::args() of the run
    last_index,    \* main's last_index (line 171)
    mode,          \* main's mode (line 172)
    html,          \* the rows of the fetched page (line 176)
    notices,       \* main's notices (line 177)
    latest_index,  \* main's latest_index (line 178)
    new_count,     \* the count handed to compose_commit_message (line 192)
    branch,        \* the arm of line 186 taken: "ADVANCED", "UNCHANGED", "none"
    stdout,        \* what the run has printed, one entry per println!
    stderr,        \* what the run has written to standard error
    file,          \* the last_index file
    fileAtStart,   \* the last_index file when the run started
    log,           \* the outputs and file operations of the run, in order
    prev           \* whether the last run that ended ended in ADVANCED, and with what

vars ==
    <<pc, argv, last_index, mode, html, notices, latest_index, new_count,
      branch, stdout, stderr, file, fileAtStart, log, prev>>

locals == <<last_index, mode, html, notices, latest_index, new_count>>

\* The last run that ended, if any, did not end in ADVANCED.
NoRun == [advanced |-> FALSE, latest_index |-> 0]

\* The last run that ended ended in ADVANCED with this latest_index.
Advanced(latest) == [advanced |-> TRUE, latest_index |-> latest]

Init ==
    /\ pc = "idle"
    /\ argv = <<Exe>>
    /\ last_index = 0
    /\ mode = <<>>
    /\ html = <<>>
    /\ notices = <<>>
    /\ latest_index = 0
    /\ new_count = 0
    /\ branch = "none"
    /\ prev = NoRun
    /\ stdout = <<>>
    /\ stderr = <<>>
    /\ file \in InitFiles
    /\ fileAtStart = file
    /\ log = <<>>

\* ------------------------------------------------------------------ driver

PanicMessage == <<"thread 'main' panicked">>

\* A panic: the message goes to standard error and the process ends.
Panic ==
    /\ pc' = "panic"
    /\ stderr' = Append(stderr, PanicMessage)
    /\ log' = Append(log, "stderr")

Println(text) ==
    /\ stdout' = Append(stdout, text \o <<"\n">>)
    /\ log' = Append(log, "stdout")

Eprintln(text) ==
    /\ stderr' = Append(stderr, text \o <<"\n">>)
    /\ log' = Append(log, "stderr")

\* A process starts with the command line a.
Run(a) ==
    /\ pc = "idle"
    /\ pc' = "args"
    /\ argv' = a
    /\ fileAtStart' = file
    /\ UNCHANGED <<locals, branch, stdout, stderr, file, log, prev>>

\* The process ends, by the end of main (line 201) or by a panic: what it
\* held in memory and what it wrote to its streams is gone, the file stays.
End ==
    /\ pc \in {"exit", "panic"}
    /\ pc' = "idle"
    /\ argv' = <<Exe>>
    /\ last_index' = 0
    /\ mode' = <<>>
    /\ html' = <<>>
    /\ notices' = <<>>
    /\ latest_index' = 0
    /\ new_count' = 0
    /\ branch' = "none"
    /\ prev' = IF pc = "exit" /\ branch = "ADVANCED" THEN Advanced(latest_index)
               ELSE NoRun
    /\ stdout' = <<>>
    /\ stderr' = <<>>
    /\ log' = <<>>
    /\ UNCHANGED <<file, fileAtStart>>

\* A run with any command line.
Start == \E a \in Argvs : Run(a)

\* What a caller that reads the last_index file hands over as args[1].
FileArg == IF file.exists THEN file.content ELSE <<>>

\* A run whose args[1] is the content of the last_index file.
StartFed == \E m \in ModeArgs : Run(<<Exe, FileArg, m>>)

\* String::from_str, which cannot fail.
ParseString(s) == Ok(s)

\* Lines 170-174.  args[1] and args[2] are indexed, so each must be there.
ParseArgs ==
    /\ pc = "args"
    /\ IF Len(argv) < 2 THEN
           Panic /\ UNCHANGED <<last_index, mode, stdout>>
       ELSE IF ~ParseI32(argv[2]).ok THEN
           Panic /\ UNCHANGED <<last_index, mode, stdout>>
       ELSE IF Len(argv) < 3 THEN
           /\ last_index' = ParseI32(argv[2]).val
           /\ Panic
           /\ UNCHANGED <<mode, stdout>>
       ELSE
           /\ last_index' = ParseI32(argv[2]).val
           /\ mode' = IF ParseString(argv[3]).ok THEN ParseString(argv[3]).val
                      ELSE ModeXml
           /\ pc' = "fetch"
           /\ UNCHANGED <<stdout, stderr, log>>
    /\ UNCHANGED <<argv, html, notices, latest_index, new_count, branch, file,
                   fileAtStart, prev>>

\* Line 176, fetch_html: the request fails, or returns a page.
FetchHtml ==
    /\ pc = "fetch"
    /\ \/ \E rows \in Pages : html' = rows /\ pc' = "parse"
                              /\ UNCHANGED <<stderr, log>>
       \/ Panic /\ UNCHANGED html
    /\ UNCHANGED <<argv, last_index, mode, notices, latest_index, new_count,
                   branch, stdout, file, fileAtStart, prev>>

\* Line 177.
ParseHtml ==
    /\ pc = "parse"
    /\ notices' = parse_html(html)
    /\ pc' = "latest"
    /\ UNCHANGED <<argv, last_index, mode, html, latest_index, new_count,
                   branch, stdout, stderr, file, fileAtStart, log, prev>>

IsNotPinned(notice) == notice.index # -1

\* Lines 178-182: the notices that are not pinned, in order.
NonPinned(ns) == SelectSeq(ns, IsNotPinned)

\* A slip of First: the last element is taken.
LastInsteadOfFirst(s) == s[Len(s)]

\* Line 182, [T]::first, on a sequence that is not empty.
First(s) == s[1]

\* A slip of LatestIndex: unwrap_or of a default where the code unwraps.
LatestIndexOrDefault ==
    /\ pc = "latest"
    /\ latest_index' = IF NonPinned(notices) = <<>> THEN -1
                       ELSE First(NonPinned(notices)).index
    /\ pc' = "compare"
    /\ UNCHANGED <<argv, last_index, mode, html, notices, new_count, stdout,
                   branch, file, fileAtStart, prev, stderr, log>>

\* Lines 178-184: the index of the first notice that is not pinned.
LatestIndex ==
    /\ pc = "latest"
    /\ IF NonPinned(notices) = <<>> THEN
           Panic /\ UNCHANGED latest_index
       ELSE
           /\ latest_index' = First(NonPinned(notices)).index
           /\ pc' = "compare"
           /\ UNCHANGED <<stderr, log>>
    /\ UNCHANGED <<argv, last_index, mode, html, notices, new_count, stdout,
                   branch, file, fileAtStart, prev>>

\* A slip of Differs: the run always takes the first arm.
DiffersAlways(last, latest) == TRUE

\* Line 186.
Differs(last, latest) == last # latest

\* A slip of Compare: the first arm goes to write_last_index at once.
CompareSkipsRender ==
    /\ pc = "compare"
    /\ IF Differs(last_index, latest_index)
       THEN pc' = "create" /\ branch' = "ADVANCED"
       ELSE pc' = "nonew" /\ branch' = "UNCHANGED"
    /\ UNCHANGED <<argv, locals, stdout, stderr, file, fileAtStart, log, prev>>

Compare ==
    /\ pc = "compare"
    /\ IF Differs(last_index, latest_index)
       THEN pc' = "render" /\ branch' = "ADVANCED"
       ELSE pc' = "nonew" /\ branch' = "UNCHANGED"
    /\ UNCHANGED <<argv, locals, stdout, stderr, file, fileAtStart, log, prev>>

\* Lines 187-195, the arms that need no arithmetic.
RenderXml ==
    /\ pc = "render" /\ mode = ModeXml
    /\ \E now \in Timestamps : Println(compose_xml(notices, now))
    /\ pc' = "create"
    /\ UNCHANGED <<argv, locals, branch, stderr, file, fileAtStart, prev>>

RenderMd ==
    /\ pc = "render" /\ mode = ModeMd
    /\ Println(compose_md(notices))
    /\ pc' = "create"
    /\ UNCHANGED <<argv, locals, branch, stderr, file, fileAtStart, prev>>

\* Lines 190-193.  latest_index - last_index panics on overflow in a build
\* with overflow checks and wraps in a build without them.
RenderCm ==
    /\ pc = "render" /\ mode = ModeCm
    /\ \/ /\ new_count' = WrappingSub(latest_index, last_index)
          /\ Println(compose_commit_message(notices, new_count'))
          /\ pc' = "create"
          /\ UNCHANGED stderr
       \/ /\ SubOverflows(latest_index, last_index)
          /\ Panic
          /\ UNCHANGED <<new_count, stdout>>
    /\ UNCHANGED <<argv, last_index, mode, html, notices, latest_index, file,
                   branch, fileAtStart, prev>>

\* A slip of RenderUnknown: the unknown mode is fatal.
RenderUnknownFatal ==
    /\ pc = "render" /\ mode \notin {ModeXml, ModeMd, ModeCm}
    /\ Panic
    /\ UNCHANGED <<argv, locals, branch, stdout, file, fileAtStart, prev>>

\* Line 194.
RenderUnknown ==
    /\ pc = "render" /\ mode \notin {ModeXml, ModeMd, ModeCm}
    /\ Eprintln(<<"unknown mode '">> \o mode \o <<"'">>)
    /\ pc' = "create"
    /\ UNCHANGED <<argv, locals, branch, stdout, file, fileAtStart, prev>>

\* Line 161, File::create: the file is created or truncated, or the call
\* fails and the run panics.
CreateFile ==
    /\ pc = "create"
    /\ \/ /\ file' = FileWith(<<>>)
          /\ log' = Append(log, "create")
          /\ pc' = "write"
          /\ UNCHANGED stderr
       \/ Panic /\ UNCHANGED file
    /\ UNCHANGED <<argv, locals, branch, stdout, fileAtStart, prev>>

\* A slip of WriteFile: last_index is written where latest_index is meant.
WriteFileStale ==
    /\ pc = "write"
    /\ \/ /\ file' = FileWith(file.content \o ToString(last_index))
          /\ log' = Append(log, "write")
          /\ pc' = "exit"
          /\ UNCHANGED stderr
       \/ Panic /\ UNCHANGED file
    /\ UNCHANGED <<argv, locals, branch, stdout, fileAtStart, prev>>

\* Line 162, write_all of the decimal text, or a failure that leaves the
\* truncated file.
WriteFile ==
    /\ pc = "write"
    /\ \/ /\ file' = FileWith(file.content \o ToString(latest_index))
          /\ log' = Append(log, "write")
          /\ pc' = "exit"
          /\ UNCHANGED stderr
       \/ Panic /\ UNCHANGED file
    /\ UNCHANGED <<argv, locals, branch, stdout, fileAtStart, prev>>

\* Line 199.
NoNew ==
    /\ pc = "nonew"
    /\ Eprintln(<<"new notices not found">>)
    /\ pc' = "exit"
    /\ UNCHANGED <<argv, locals, branch, stdout, file, fileAtStart, prev>>

Step ==
    \/ ParseArgs
    \/ FetchHtml
    \/ ParseHtml
    \/ LatestIndex
    \/ Compare
    \/ RenderXml
    \/ RenderMd
    \/ RenderCm
    \/ RenderUnknown
    \/ CreateFile
    \/ WriteFile
    \/ NoNew
    \/ End

Next == Start \/ Step

\* Runs with any command line, one after the other.
Spec == Init /\ [][Next]_vars

SerialNext == StartFed \/ Step

\* Serial runs, each given the content of the last_index file as args[1].
SerialSpec == Init /\ [][SerialNext]_vars

\* ------------------------------------------------------------- properties

Recognized == mode \in {ModeXml, ModeMd, ModeCm}

\* The run has neither created nor written the last_index file.
NoFileOp == \A i \in 1..Len(log) : log[i] \notin {"create", "write"}

Times(event) == Cardinality({i \in 1..Len(log) : log[i] = event})

NoNewDiagnostic == <<"new notices not found", "\n">>

UnknownModeDiagnostic == <<"unknown mode '">> \o mode \o <<"'", "\n">>

\* The indexes of the extracted notices, in document order.
Indexes == [i \in 1..Len(notices) |-> notices[i].index]

\* The places of the notices that are not pinned, given their indexes.
NumberedIn(idx) == {i \in DOMAIN idx : idx[i] # -1}

\* The places of the extracted notices that are not pinned.
Numbered == NumberedIn(Indexes)

\* The least place of a set of places that is not empty.
Least(places) == CHOOSE i \in places : \A j \in places : i <= j

\* The first chunk of the document each mode renders.
DocOpen(m) ==
    CASE m = ModeXml -> XmlHeaderOpen
      [] m = ModeMd -> MdHeader
      [] m = ModeCm -> CmHeaderOpen

ItemOpen(m) ==
    CASE m = ModeXml -> XmlItemOpen
      [] m = ModeMd -> MdItemOpen
      [] m = ModeCm -> CmItemOpen

\* The places in doc where an item opens, in order.
ItemPlaces(doc, m) ==
    SelectSeq([i \in 1..Len(doc) |-> i], LAMBDA i : doc[i] = ItemOpen(m))

\* The text of doc that follows place p, as long as t.
Following(doc, p, t) == SubSeq(doc, p + 1, p + Len(t))

\* The number stated in the header of a commit message.
HeaderNumber(doc) ==
    LET stop == CHOOSE i \in 1..Len(doc) : doc[i] = HeaderSuffix IN
    ParseI32(SubSeq(doc, 2, stop - 1))

\* C1: when the comparison of line 186 has found latest_index equal to the
\* previous watermark, the run is in UNCHANGED whatever the mode is: it goes
\* to the diagnostic and the exit only, standard output stays empty,
\* standard error holds the diagnostic alone once it is written, and the
\* last_index file is neither created nor written and is as the run found it.
C1_UnchangedTouchesNothing ==
    (branch # "none" /\ latest_index = last_index) =>
        /\ branch = "UNCHANGED"
        /\ pc \in {"nonew", "exit"}
        /\ stdout = <<>>
        /\ stderr = IF pc = "exit" THEN <<NoNewDiagnostic>> ELSE <<>>
        /\ NoFileOp
        /\ file = fileAtStart

\* A run with an unrecognized mode ended in UNCHANGED and no file exists.
C1_Witness ==
    /\ pc = "exit" /\ branch = "UNCHANGED"
    /\ ~Recognized
    /\ file = NoFile

C3_NeverDecremented ==
    (/\ fileAtStart.exists /\ ParseI32(fileAtStart.content).ok
     /\ file.exists /\ ParseI32(file.content).ok)
        => ParseI32(file.content).val >= ParseI32(fileAtStart.content).val

\* C4 as stated: latest_index is the greatest index of the notices that are
\* not pinned, in whatever order they are, and a previous watermark equal to
\* that greatest index leads to UNCHANGED.
C4_LatestIsMaximum ==
    branch # "none" =>
        LET idx == Indexes
            numbered == NumberedIn(idx)
        IN  /\ \A i \in numbered : idx[i] <= latest_index
            /\ (/\ \A i \in numbered : idx[i] <= last_index
                /\ \E i \in numbered : idx[i] = last_index)
                   => branch = "UNCHANGED"

\* The notices that are not pinned come in descending order of index.
DescendingIn(idx) ==
    \A i, j \in NumberedIn(idx) : i < j => idx[i] >= idx[j]

\* C4 amended: latest_index is the index of the first notice, in document
\* order, that is not pinned; it is the greatest such index when those
\* notices come in descending order; and a previous watermark equal to the
\* index of that first notice leads to UNCHANGED with no output and no file
\* write.
C4_LatestIsFirstNonPinned ==
    branch # "none" =>
        LET idx == Indexes
            numbered == NumberedIn(idx)
        IN  /\ numbered # {}
            /\ idx[Least(numbered)] = latest_index
            /\ DescendingIn(idx) => \A i \in numbered : idx[i] <= latest_index
            /\ idx[Least(numbered)] = last_index =>
                   /\ branch = "UNCHANGED"
                   /\ stdout = <<>>
                   /\ NoFileOp
                   /\ file = fileAtStart

\* A run ended in UNCHANGED on a page whose first notice that is not pinned
\* is not the one with the greatest index.
C4_Witness ==
    /\ pc = "exit" /\ branch = "UNCHANGED"
    /\ \E i \in Numbered : notices[i].index > latest_index
    /\ ~DescendingIn(Indexes)

\* C5: in a run whose latest_index differs from the previous watermark and
\* whose mode is none of xml, md, cm, nothing is printed to standard output,
\* the rendering step writes the unknown-mode diagnostic to standard error
\* and does not end the run, and a run that exits has created and written
\* the last_index file with the decimal text of latest_index.
C5_UnknownModeStillWrites ==
    (branch = "ADVANCED" /\ ~Recognized) =>
        /\ stdout = <<>>
        /\ pc = "render" => stderr = <<>>
        /\ pc # "render" =>
               /\ Len(stderr) >= 1
               /\ stderr[1] = UnknownModeDiagnostic
               /\ log[1] = "stderr"
        /\ pc \in {"create", "write", "exit"} => stderr = <<UnknownModeDiagnostic>>
        /\ pc = "exit" =>
               /\ log = <<"stderr", "create", "write">>
               /\ file = FileWith(ToString(latest_index))
               /\ ParseI32(file.content) = Ok(latest_index)

\* A run with an unrecognized mode exited after replacing the watermark.
C5_Witness ==
    /\ pc = "exit" /\ branch = "ADVANCED"
    /\ ~Recognized
    /\ file # fileAtStart

\* C6: a run given a valid previous index and no mode goes on as a run in
\* mode xml does, and does not fail.
C6_ModeDefaultsToXml ==
    (Len(argv) = 2 /\ ParseI32(argv[2]).ok /\ pc # "args") =>
        /\ pc # "panic"
        /\ mode = ModeXml

\* C7: when every extracted notice is pinned (no row at all, or only rows
\* of index -1), the run panics where latest_index is taken: neither arm
\* of line 186 is entered, nothing is printed to standard output, and the
\* last_index file is neither created nor written, for every previous
\* watermark and mode.
C7_NoAnchorIsFatal ==
    (pc \notin {"idle", "args", "fetch", "parse"} /\ Numbered = {}) =>
        /\ pc \in {"latest", "panic"}
        /\ branch = "none"
        /\ stdout = <<>>
        /\ NoFileOp
        /\ file = fileAtStart

\* A run panicked on a page of two pinned rows, with a file in place.
C7_Witness ==
    /\ pc = "panic"
    /\ Len(notices) = 2 /\ Numbered = {}
    /\ mode = ModeMd
    /\ file.exists

\* C8: a row whose index cell does not parse as an i32 gives a notice of
\* index -1; latest_index is never -1 and is the index of a row whose cell
\* parses; and the document an ADVANCED run prints in mode xml, md or cm
\* holds exactly one item per notice, pinned ones included, the k-th item
\* carrying the title of the k-th notice (after the pin marker in md, for an
\* index of -1).
C8_PinnedRowsAreRenderedNotCounted ==
    LET cells == [i \in 1..Len(html) |-> ParseI32(parse_text(html[i].num))] IN
    /\ pc \notin {"fetch", "parse"} =>
           /\ Len(notices) = Len(html)
           /\ \A i \in 1..Len(html) : ~cells[i].ok => notices[i].index = -1
    /\ branch # "none" =>
           /\ latest_index # -1
           /\ \E i \in 1..Len(html) : cells[i] = Ok(latest_index)
    /\ (Len(stdout) = 1 /\ Recognized) =>
           LET doc == stdout[1]
               places == ItemPlaces(doc, mode)
           IN  /\ Len(places) = Len(html)
               /\ \A k \in 1..Len(places) :
                      LET t == encode_minimal(parse_text(AnchorTexts(html[k])))
                          pinned == ~cells[k].ok \/ cells[k].val = -1
                      IN  IF mode = ModeMd /\ pinned
                          THEN /\ doc[places[k] + 1] = PinMarker
                               /\ Following(doc, places[k] + 1, t) = t
                          ELSE /\ Following(doc, places[k], t) = t
                               /\ doc[places[k] + 1] # PinMarker

\* A Markdown document was printed for a page with a row whose index cell
\* does not parse, before a numbered row.
C8_Witness ==
    /\ Len(stdout) = 1 /\ mode = ModeMd
    /\ Len(html) = 2
    /\ ~ParseI32(parse_text(html[1].num)).ok
    /\ 2 \in Numbered

\* C9: the number in the header of the commit message is the number of
\* notices that are not pinned and whose index is above the previous
\* watermark; it is not negative and not above the number of notices listed.
C9_HeaderCountsNewNotices ==
    (mode = ModeCm /\ Len(stdout) = 1) =>
        LET n == HeaderNumber(stdout[1]) IN
        /\ n.ok
        /\ n.val = Cardinality({i \in 1..Len(notices) :
                        /\ notices[i].index # -1
                        /\ notices[i].index > last_index})
        /\ n.val >= 0
        /\ n.val <= Len(notices)

\* C10: in serial runs fed from the last_index file, a run that ends in
\* ADVANCED leaves the decimal text of its latest_index in the file; the run
\* that follows it, if the first numbered row of its page has that same
\* index, takes the UNCHANGED arm and prints nothing; and a run prints a
\* document only if its latest_index differs from the value the file held
\* when it started.
C10_SerialRunsAreIdempotent ==
    /\ (pc = "exit" /\ branch = "ADVANCED") =>
           /\ file.exists
           /\ ParseI32(file.content) = Ok(latest_index)
    /\ (prev.advanced /\ branch # "none" /\ latest_index = prev.latest_index) =>
           /\ branch = "UNCHANGED"
           /\ stdout = <<>>
           /\ NoFileOp
    /\ stdout # <<>> =>
           /\ fileAtStart.exists
           /\ ParseI32(fileAtStart.content).ok
           /\ ParseI32(fileAtStart.content).val # latest_index

\* A run that followed an ADVANCED run ended in UNCHANGED.
C10_Witness ==
    /\ prev.advanced
    /\ pc = "exit" /\ branch = "UNCHANGED"
    /\ latest_index = prev.latest_index

=============================================================================
